---------------------------- MODULE Spec2Model ----------------------------
(***************************************************************************)
(* Model of BaseAuthManager (airflow/auth/managers/base_auth_manager.py):  *)
(* the default batch authorization, the DAG-id filtering, the session-user *)
(* accessors and the JWT issuance, over an abstract backend.               *)
(*                                                                         *)
(* The manager keeps no state of its own.  For the batch and filtering     *)
(* operations the initial state draws the environment (backend policy,     *)
(* session user, DAG store) and the pending invocation (op, args), and the *)
(* operation's action runs the whole method body.  For the accessors and   *)
(* the tokens the environment changes between invocations (users sign in   *)
(* and out, time passes).  Every invocation records its outcome in ret and *)
(* the externally visible events it produced, in program order, in trace.  *)
(* Concurrent callers are threads that each run one call step by step, a   *)
(* step being one backend call or one statement between two of them.       *)
(***************************************************************************)
EXTENDS Integers, Sequences, FiniteSets, TLC

VARIABLES
    policy,     \* the backend's authorization policy (externally owned)
    session,    \* what get_user() returns: a user, or None
    dagStore,   \* the dag_id column of the DagModel table
    storeOk,    \* whether session.execute(select(DagModel.dag_id)) succeeds
    conf,       \* [api] auth_jwt_secret / auth_jwt_expiration_time
    now,        \* wall clock, in seconds
    token,      \* the last token handed out by get_jwt_token, or NoToken
    op,         \* name of the invoked operation
    args,       \* its arguments
    ret,        \* its outcome: pending / returned value / raised error
    trace,      \* events the invocation produced, in program order
    log,        \* the records self.log has received so far
    threads,    \* the calls in progress on concurrent threads, each with its locals
    sharedIds   \* the set object concurrent callers pass as dag_ids

vars == <<policy, session, dagStore, storeOk, conf, now, token, op, args, ret, trace, log,
          threads, sharedIds>>

-----------------------------------------------------------------------------
(* Bounds *)

\* longest request sequence handed to a batch_is_authorized_* call
MaxLen == 2

\* last clock value explored
MaxTime == 4

\* largest [api] auth_jwt_expiration_time explored, in seconds
MaxExpiration == 2

\* log records after which no further failing call is explored
MaxLog == 3

-----------------------------------------------------------------------------
(* Values *)

\* Python's None, where the other values of the type are strings
None == "None"

\* ResourceMethod = Literal["GET", "POST", "PUT", "DELETE", "MENU"]
ResourceMethod == {"GET", "POST", "PUT", "DELETE", "MENU"}

\* user objects (T bound to BaseUser), by handle
Users == {"alice", "bob"}

\* dag ids
DagIds == {"a", "b", "c"}

\* DagAccessEntity values used in requests
AccessEntities == {"RUN"}

\* resource kinds that have a batch API
Kinds == {"connection", "dag", "pool", "variable"}

\* Optional[X] for a set-valued X: <<>> is None, <<x>> is x
Some(x) == <<x>>
Nothing == <<>>

\* Python truthiness of an optional container: None and empty are falsy
Falsy(container) == container = Nothing \/ container[1] = {}

-----------------------------------------------------------------------------
(* The abstract backend *)

\* one authorization question as the backend sees it
Query(subject, kind, method, entity, details) == <<subject, kind, method, entity, details>>

\* is_authorized_<kind>(method, access_entity, details, user): "user: the user to
\* perform the action on. If not provided (or None), it uses the current user"
IsAuthorized(kind, method, entity, details, user) ==
    LET subject == IF user = None THEN session ELSE user
        q == Query(subject, kind, method, entity, details)
    IN  IF q \in policy.exceptions THEN ~policy.default ELSE policy.default

\* the event of calling is_authorized_<kind> with these keyword arguments
AuthCall(kind, method, entity, details, user) ==
    <<"is_authorized", kind, method, entity, details, user>>

\* the outcome of an invocation: how it ended, with what, and at which source line
Pending == [status |-> "pending", value |-> None, line |-> 0]

\* what a method body evaluates to: its outcome and the events it produced
Return(v, line, calls) == [status |-> "returned", value |-> v, line |-> line, calls |-> calls]
Raise(e, line, calls) == [status |-> "raised", value |-> e, line |-> line, calls |-> calls]

-----------------------------------------------------------------------------
(* Batch authorization *)

\* variant of all(): over a list built first, so every value is computed
PyAll_Eager(vals) ==
    [value |-> \A i \in 1..Len(vals) : vals[i], consumed |-> Len(vals)]

\* Python all() over a generator of the values vals[1], vals[2], ...: consumes
\* them in order and stops after the first falsy one
PyAll(vals) ==
    LET n == Len(vals)
        denied == {i \in 1..n : ~vals[i]}
        stop == IF denied = {} THEN n ELSE CHOOSE i \in denied : \A j \in denied : i <= j
    IN  [value |-> denied = {}, consumed |-> stop]

\* variant of batch_is_authorized_connection: any() where the code has all()
BatchIsAuthorizedConnection_Any(requests) ==
    LET vals == [i \in 1..Len(requests) |->
                    IsAuthorized("connection", requests[i].method, None, requests[i].details, None)]
    IN  Return(\E i \in 1..Len(requests) : vals[i], 297,
               [i \in 1..Len(requests) |->
                    AuthCall("connection", requests[i].method, None, requests[i].details, None)])

\* batch_is_authorized_connection
BatchIsAuthorizedConnection(requests) ==
    LET vals == [i \in 1..Len(requests) |->
                    IsAuthorized("connection", requests[i].method, None, requests[i].details, None)]
        r == PyAll(vals)
    IN  Return(r.value, 297,
               [i \in 1..r.consumed |->
                    AuthCall("connection", requests[i].method, None, requests[i].details, None)])

\* batch_is_authorized_dag
BatchIsAuthorizedDag(requests) ==
    LET vals == [i \in 1..Len(requests) |->
                    IsAuthorized("dag", requests[i].method, requests[i].access_entity,
                                 requests[i].details, None)]
        r == PyAll(vals)
    IN  Return(r.value, 315,
               [i \in 1..r.consumed |->
                    AuthCall("dag", requests[i].method, requests[i].access_entity,
                             requests[i].details, None)])

\* batch_is_authorized_pool
BatchIsAuthorizedPool(requests) ==
    LET vals == [i \in 1..Len(requests) |->
                    IsAuthorized("pool", requests[i].method, None, requests[i].details, None)]
        r == PyAll(vals)
    IN  Return(r.value, 337,
               [i \in 1..r.consumed |->
                    AuthCall("pool", requests[i].method, None, requests[i].details, None)])

\* batch_is_authorized_variable
BatchIsAuthorizedVariable(requests) ==
    LET vals == [i \in 1..Len(requests) |->
                    IsAuthorized("variable", requests[i].method, None, requests[i].details, None)]
        r == PyAll(vals)
    IN  Return(r.value, 355,
               [i \in 1..r.consumed |->
                    AuthCall("variable", requests[i].method, None, requests[i].details, None)])

-----------------------------------------------------------------------------
(* Inputs of the batch operations *)

\* sequences over S of length at most n
SeqUpTo(S, n) == UNION {[1..k -> S] : k \in 0..n}

\* methods and details the batch requests are drawn from
BatchMethods == {"GET", "PUT"}
BatchDetails == {None, "a"}

\* the user argument of a call: not given, or another user than the session's
Overrides == {None, "bob"}

EntitiesOf(kind) == IF kind = "dag" THEN {None} \cup AccessEntities ELSE {None}

\* IsAuthorized<Kind>Request: method, details, (Dag) access_entity, user
Requests(kind) ==
    [method : BatchMethods, details : BatchDetails,
     access_entity : EntitiesOf(kind), user : Overrides]

\* the questions a backend can be asked about one kind
Queries(kind, methods, details) ==
    {Query(s, kind, m, e, d) : s \in Users \cup {None}, m \in methods,
                               e \in EntitiesOf(kind), d \in details}

\* policies: a default answer and the questions answered the other way
Policies(exceptionSets) == [default : BOOLEAN, exceptions : exceptionSets]

AtMostOne(S) == {{}} \cup {{x} : x \in S}

\* the batch operation of a kind, and back
BatchOp(kind) ==
    CASE kind = "connection" -> "batch_is_authorized_connection"
      [] kind = "dag" -> "batch_is_authorized_dag"
      [] kind = "pool" -> "batch_is_authorized_pool"
      [] kind = "variable" -> "batch_is_authorized_variable"

BatchOps == {BatchOp(k) : k \in Kinds}

KindOf(o) == CHOOSE k \in Kinds : BatchOp(k) = o

\* environment parts an operation family does not read
NoToken == <<>>
NoConf == [secret |-> "k1", expiration |-> 1]
NoPolicy == [default |-> FALSE, exceptions |-> {}]
NoThreads == <<>>

InitBatch ==
    /\ \E kind \in Kinds :
        /\ op = BatchOp(kind)
        /\ args \in [requests : SeqUpTo(Requests(kind), MaxLen)]
        /\ policy \in Policies(AtMostOne(Queries(kind, BatchMethods, BatchDetails)))
    /\ session \in Users \cup {None}
    /\ dagStore = {}
    /\ storeOk = TRUE
    /\ conf = NoConf
    /\ now = 0
    /\ token = NoToken
    /\ ret = Pending
    /\ trace = <<>>
    /\ log = <<>>
    /\ threads = NoThreads
    /\ sharedIds = {}

\* the invocation ends as the method body did; its log records reach the log
IsLogRecord(e) == e[1] = "log"

Completes(r) ==
    /\ ret' = [status |-> r.status, value |-> r.value, line |-> r.line]
    /\ trace' = r.calls
    /\ log' = log \o SelectSeq(r.calls, IsLogRecord)

Finish(r) ==
    /\ Completes(r)
    /\ UNCHANGED <<threads, sharedIds, policy, session, dagStore, storeOk, conf, now, token, op, args>>

CallBatchIsAuthorizedConnection ==
    /\ op = BatchOp("connection") /\ ret.status = "pending"
    /\ Finish(BatchIsAuthorizedConnection(args.requests))

CallBatchIsAuthorizedDag ==
    /\ op = BatchOp("dag") /\ ret.status = "pending"
    /\ Finish(BatchIsAuthorizedDag(args.requests))

CallBatchIsAuthorizedPool ==
    /\ op = BatchOp("pool") /\ ret.status = "pending"
    /\ Finish(BatchIsAuthorizedPool(args.requests))

CallBatchIsAuthorizedVariable ==
    /\ op = BatchOp("variable") /\ ret.status = "pending"
    /\ Finish(BatchIsAuthorizedVariable(args.requests))

NextBatch ==
    \/ CallBatchIsAuthorizedConnection
    \/ CallBatchIsAuthorizedDag
    \/ CallBatchIsAuthorizedPool
    \/ CallBatchIsAuthorizedVariable

SpecBatch == InitBatch /\ [][NextBatch]_vars

\* a batch call has completed
BatchDone == op \in BatchOps /\ ret.status # "pending"

\* every request of the sequence passes is_authorized_<kind> for subject-argument
\* user(i) of request i
EveryRequestAuthorized(user(_)) ==
    \A i \in 1..Len(args.requests) :
        IsAuthorized(KindOf(op), args.requests[i].method, args.requests[i].access_entity,
                     args.requests[i].details, user(i))

CurrentUser(i) == None
RequestUser(i) == args.requests[i].user

\* C1: batch_is_authorized_<kind>(requests) returns (never raises) true iff
\* is_authorized_<kind>, asked about each request's method, details and (Dag) access
\* entity, returns true for every request of the sequence; true for the empty sequence.
C1_BatchIsConjunction ==
    BatchDone =>
        /\ ret.status = "returned"
        /\ ret.value = EveryRequestAuthorized(CurrentUser)
        /\ (args.requests = <<>> => ret.value = TRUE)

\* C1 witnesses: a batch of two requests of which exactly the second is denied
C1_Witness ==
    /\ BatchDone
    /\ Len(args.requests) = 2
    /\ IsAuthorized(KindOf(op), args.requests[1].method, args.requests[1].access_entity,
                    args.requests[1].details, None)
    /\ ~IsAuthorized(KindOf(op), args.requests[2].method, args.requests[2].access_entity,
                     args.requests[2].details, None)
    /\ ret.value = FALSE

\* C2 (as claimed): each element is decided with all of its fields, the identity
\* override included: the batch result is the conjunction of the checks made for
\* each element's own user where it names one
C2_BatchHonoursIdentityOverride ==
    BatchDone => ret.value = EveryRequestAuthorized(RequestUser)

\* the backend call the batch operation makes for request i
RequestCall(i) ==
    AuthCall(KindOf(op), args.requests[i].method, args.requests[i].access_entity,
             args.requests[i].details, None)

\* request i is denied when checked on its own
Denied(i) ==
    ~IsAuthorized(KindOf(op), args.requests[i].method, args.requests[i].access_entity,
                  args.requests[i].details, None)

\* 1-based index of the first denied request, the sequence length when none is
FirstDenied ==
    LET n == Len(args.requests)
    IN  IF \E i \in 1..n : Denied(i)
        THEN CHOOSE i \in 1..n : Denied(i) /\ \A j \in 1..(i - 1) : ~Denied(j)
        ELSE n

\* C14: batch_is_authorized_<kind> asks the backend about the requests in sequence
\* order and stops after the first denied one: the backend calls it made are those
\* for requests 1..k, in that order, where k is the 1-based index of the first
\* denied request, or the sequence length when none is denied.
C14_BatchShortCircuits ==
    BatchDone =>
        /\ Len(trace) = FirstDenied
        /\ \A i \in 1..Len(trace) : trace[i] = RequestCall(i)

\* C14 witnesses: the first of two requests is denied and only it was asked about
C14_Witness ==
    /\ BatchDone
    /\ Len(args.requests) = 2
    /\ Denied(1)
    /\ trace = <<RequestCall(1)>>
    /\ ret.value = FALSE

\* C14 witnesses: nothing denied, every request of the sequence asked about
C14_WitnessNoneDenied ==
    /\ BatchDone
    /\ Len(args.requests) = 2
    /\ args.requests[1] # args.requests[2]
    /\ ~Denied(1) /\ ~Denied(2)
    /\ Len(trace) = 2
    /\ ret.value = TRUE

-----------------------------------------------------------------------------
(* DAG-id filtering *)

\* variant of _is_permitted_dag_id: user=user not passed on
IsPermittedDagId_CurrentUser(method, methods, dag_id, user) ==
    IF method \in methods
    THEN [value |-> IsAuthorized("dag", method, None, dag_id, None),
          calls |-> <<AuthCall("dag", method, None, dag_id, None)>>]
    ELSE [value |-> FALSE, calls |-> <<>>]

\* _is_permitted_dag_id(method, methods, dag_id): "method in methods and
\* self.is_authorized_dag(method=method, details=DagDetails(id=dag_id), user=user)"
IsPermittedDagId(method, methods, dag_id, user) ==
    IF method \in methods
    THEN [value |-> IsAuthorized("dag", method, None, dag_id, user),
          calls |-> <<AuthCall("dag", method, None, dag_id, user)>>]
    ELSE [value |-> FALSE, calls |-> <<>>]

\* variant of the comprehension's condition: a method that was not asked about lets
\* the id through ("method not in methods or ...")
KeepDagId_NotAsked(methods, dag_id, user) ==
    LET g == IsPermittedDagId("GET", methods, dag_id, user)
        p == IsPermittedDagId("PUT", methods, dag_id, user)
    IN  IF "GET" \notin methods \/ g.value THEN g
        ELSE [value |-> "PUT" \notin methods \/ p.value, calls |-> g.calls \o p.calls]

\* variant of the comprehension's condition: "and" where the code has "or"
KeepDagId_Both(methods, dag_id, user) ==
    LET g == IsPermittedDagId("GET", methods, dag_id, user)
        p == IsPermittedDagId("PUT", methods, dag_id, user)
    IN  IF ~g.value THEN g ELSE [value |-> p.value, calls |-> g.calls \o p.calls]

\* the comprehension's condition for one dag_id:
\* _is_permitted_dag_id("GET", ...) or _is_permitted_dag_id("PUT", ...)
KeepDagId(methods, dag_id, user) ==
    LET g == IsPermittedDagId("GET", methods, dag_id, user)
        p == IsPermittedDagId("PUT", methods, dag_id, user)
    IN  IF g.value THEN g ELSE [value |-> p.value, calls |-> g.calls \o p.calls]

\* the backend calls of the set comprehension visiting the ids in this order
RECURSIVE ComprehensionCalls(_, _, _)
ComprehensionCalls(methods, order, user) ==
    IF order = <<>> THEN <<>>
    ELSE KeepDagId(methods, Head(order), user).calls
            \o ComprehensionCalls(methods, Tail(order), user)

\* the orders in which a set can be iterated
Orders(S) == {o \in [1..Cardinality(S) -> S] : \A x \in S : \E i \in DOMAIN o : o[i] = x}

\* variant of filter_permitted_dag_ids: the early return does not look at methods
FilterPermittedDagIds_AnyBlanket(dag_ids, methods, user, order) ==
    LET ms == IF Falsy(methods) THEN {"PUT", "GET"} ELSE methods[1]
        get == [value |-> IsAuthorized("dag", "GET", None, None, user),
                calls |-> <<AuthCall("dag", "GET", None, None, user)>>]
        put == [value |-> IsAuthorized("dag", "PUT", None, None, user),
                calls |-> <<AuthCall("dag", "PUT", None, None, user)>>]
    IN  IF get.value THEN Return(dag_ids, 403, get.calls)
        ELSE IF put.value THEN Return(dag_ids, 403, get.calls \o put.calls)
        ELSE Return({d \in dag_ids : KeepDagId(ms, d, user).value}, 410,
                    get.calls \o put.calls \o ComprehensionCalls(ms, order, user))

\* variant of filter_permitted_dag_ids: methods defaults to ["GET"]
FilterPermittedDagIds_DefaultGet(dag_ids, methods, user, order) ==
    LET ms == IF Falsy(methods) THEN {"GET"} ELSE methods[1]
        get == IF "GET" \in ms
               THEN [value |-> IsAuthorized("dag", "GET", None, None, user),
                     calls |-> <<AuthCall("dag", "GET", None, None, user)>>]
               ELSE [value |-> FALSE, calls |-> <<>>]
        put == IF "PUT" \in ms
               THEN [value |-> IsAuthorized("dag", "PUT", None, None, user),
                     calls |-> <<AuthCall("dag", "PUT", None, None, user)>>]
               ELSE [value |-> FALSE, calls |-> <<>>]
    IN  IF get.value THEN Return(dag_ids, 403, get.calls)
        ELSE IF put.value THEN Return(dag_ids, 403, get.calls \o put.calls)
        ELSE Return({d \in dag_ids : KeepDagId(ms, d, user).value}, 410,
                    get.calls \o put.calls \o ComprehensionCalls(ms, order, user))

\* filter_permitted_dag_ids(dag_ids, methods, user), iterating dag_ids in `order`
FilterPermittedDagIds(dag_ids, methods, user, order) ==
    LET ms == IF Falsy(methods) THEN {"PUT", "GET"} ELSE methods[1]
        get == IF "GET" \in ms
               THEN [value |-> IsAuthorized("dag", "GET", None, None, user),
                     calls |-> <<AuthCall("dag", "GET", None, None, user)>>]
               ELSE [value |-> FALSE, calls |-> <<>>]
        put == IF "PUT" \in ms
               THEN [value |-> IsAuthorized("dag", "PUT", None, None, user),
                     calls |-> <<AuthCall("dag", "PUT", None, None, user)>>]
               ELSE [value |-> FALSE, calls |-> <<>>]
    IN  IF get.value THEN Return(dag_ids, 403, get.calls)
        ELSE IF put.value THEN Return(dag_ids, 403, get.calls \o put.calls)
        ELSE Return({d \in dag_ids : KeepDagId(ms, d, user).value}, 410,
                    get.calls \o put.calls \o ComprehensionCalls(ms, order, user))

\* the event of running select(DagModel.dag_id) on the session
SelectDagIds == <<"select_dag_ids">>

\* variant of get_permitted_dag_ids: methods not passed on to the filter
GetPermittedDagIds_DropsMethods(methods, user, order) ==
    IF ~storeOk THEN Raise("StoreError", 379, <<SelectDagIds>>)
    ELSE LET f == FilterPermittedDagIds(dagStore, Nothing, user, order)
         IN  [f EXCEPT !.line = 380, !.calls = <<SelectDagIds>> \o f.calls]

\* variant of get_permitted_dag_ids: a failed enumeration counts as no dags
GetPermittedDagIds_SwallowsError(methods, user, order) ==
    LET ids == IF storeOk THEN dagStore ELSE {}
        f == FilterPermittedDagIds(ids, methods, user, <<>>)
    IN  IF storeOk
        THEN LET g == FilterPermittedDagIds(dagStore, methods, user, order)
             IN  [g EXCEPT !.line = 380, !.calls = <<SelectDagIds>> \o g.calls]
        ELSE [f EXCEPT !.line = 380, !.calls = <<SelectDagIds>> \o f.calls]

\* get_permitted_dag_ids(methods, user); the store's error, when it raises, passes
\* through
GetPermittedDagIds(methods, user, order) ==
    IF ~storeOk THEN Raise("StoreError", 379, <<SelectDagIds>>)
    ELSE LET f == FilterPermittedDagIds(dagStore, methods, user, order)
         IN  [f EXCEPT !.line = 380, !.calls = <<SelectDagIds>> \o f.calls]

-----------------------------------------------------------------------------
(* Inputs of the filtering operations *)

\* the methods argument: None, or a container of methods
MethodsArgs == {Nothing} \cup {Some(S) : S \in SUBSET {"GET", "PUT", "POST"}}

\* what is_authorized_dag can be asked by the filter
DagQueries ==
    {Query(s, "dag", m, None, d) : s \in Users \cup {None}, m \in {"GET", "PUT"},
                                   d \in {None} \cup DagIds}

AtMostTwo(S) == {{}} \cup {{x, y} : x \in S, y \in S}

InitFilter ==
    /\ \/ /\ op = "filter_permitted_dag_ids"
          /\ args \in [dag_ids : SUBSET DagIds, methods : MethodsArgs, user : Overrides]
          /\ dagStore = {}
          /\ storeOk = TRUE
       \/ /\ op = "get_permitted_dag_ids"
          /\ args \in [methods : MethodsArgs, user : Overrides]
          /\ dagStore \in SUBSET DagIds
          /\ storeOk \in BOOLEAN
    /\ policy \in Policies(AtMostTwo(DagQueries))
    /\ session \in Users \cup {None}
    /\ conf = NoConf
    /\ now = 0
    /\ token = NoToken
    /\ ret = Pending
    /\ trace = <<>>
    /\ log = <<>>
    /\ threads = NoThreads
    /\ sharedIds = {}

CallFilterPermittedDagIds ==
    /\ op = "filter_permitted_dag_ids" /\ ret.status = "pending"
    /\ \E order \in Orders(args.dag_ids) :
        Finish(FilterPermittedDagIds(args.dag_ids, args.methods, args.user, order))

CallGetPermittedDagIds ==
    /\ op = "get_permitted_dag_ids" /\ ret.status = "pending"
    /\ \E order \in Orders(dagStore) :
        Finish(GetPermittedDagIds(args.methods, args.user, order))

NextFilter ==
    \/ CallFilterPermittedDagIds
    \/ CallGetPermittedDagIds

SpecFilter == InitFilter /\ [][NextFilter]_vars

\* a filter_permitted_dag_ids call has completed
FilterDone == op = "filter_permitted_dag_ids" /\ ret.status # "pending"

\* the methods the caller asked about, {GET, PUT} standing in for none given
AskedMethods ==
    IF args.methods = Nothing \/ args.methods[1] = {} THEN {"GET", "PUT"} ELSE args.methods[1]

\* the identity passes the unscoped Dag check for method m
Blanket(m) == IsAuthorized("dag", m, None, None, args.user)

\* the identity passes the Dag check for method m on dag id d
PerId(m, d) == IsAuthorized("dag", m, None, d, args.user)

\* blanket GET or PUT authorization for a method that was asked about
FastPathApplies == \E m \in {"GET", "PUT"} \cap AskedMethods : Blanket(m)

\* the events of the trace that are is_authorized_dag calls naming a dag id
PerIdCalls == {i \in DOMAIN trace : trace[i][1] = "is_authorized" /\ trace[i][5] # None}

\* C3: when GET (or PUT) is asked about and the identity passes the unscoped Dag check
\* for it, filter_permitted_dag_ids returns the whole input set from the early return
\* and makes no is_authorized_dag call with details; blanket authorization for a
\* method not asked about does not take the early return.
C3_FastPath ==
    FilterDone =>
        /\ FastPathApplies =>
            /\ ret.status = "returned" /\ ret.line = 403
            /\ ret.value = args.dag_ids
            /\ PerIdCalls = {}
        /\ ~FastPathApplies => ret.line = 410

\* C3 witness: PUT alone triggers the early return on a three-id input
C3_Witness ==
    /\ FilterDone
    /\ args.dag_ids = DagIds
    /\ args.methods = Some({"GET", "PUT"})
    /\ ~Blanket("GET") /\ Blanket("PUT")
    /\ ret.value = DagIds /\ Len(trace) = 2

\* C3, second case reached: blanket PUT, only GET asked about, the ids are filtered
C3_WitnessMethodNotAsked ==
    /\ FilterDone
    /\ args.methods = Some({"GET"})
    /\ Blanket("PUT") /\ ~Blanket("GET")
    /\ args.dag_ids # {} /\ ret.value = {} /\ ret.line = 410

\* C4: when the early return does not apply, the result is exactly the ids of dag_ids
\* that pass the per-id check for GET or PUT, whichever were asked about, and every
\* backend call is made with the user argument the caller gave.
C4_SlowPath ==
    (FilterDone /\ ~FastPathApplies) =>
        /\ ret.status = "returned"
        /\ ret.value = {d \in args.dag_ids : \E m \in {"GET", "PUT"} \cap AskedMethods : PerId(m, d)}
        /\ \A i \in DOMAIN trace : trace[i][1] = "is_authorized" /\ trace[i][6] = args.user

\* C4 witness: bob, given as user while alice is signed in, is authorized for "a"
\* only among {a, b, c} and gets exactly {a}
C4_Witness ==
    /\ FilterDone
    /\ session = "alice" /\ args.user = "bob"
    /\ args.dag_ids = {"a", "b", "c"}
    /\ args.methods = Some({"GET", "PUT"})
    /\ {d \in DagIds : PerId("GET", d) \/ PerId("PUT", d)} = {"a"}
    /\ ret.value = {"a"} /\ ret.line = 410

\* the identity is blanket-denied and authorized for no single dag id, whatever the method
DeniedEverywhere ==
    \A m \in ResourceMethod : ~Blanket(m) /\ \A d \in DagIds : ~PerId(m, d)

\* C5: for an identity that is blanket-denied and authorized for no dag id,
\* filter_permitted_dag_ids returns the empty set, whatever dag_ids and methods are.
C5_DeniedGetsNothing ==
    (FilterDone /\ DeniedEverywhere) => (ret.status = "returned" /\ ret.value = {})

\* C5 witness: such an identity, a full input set, and methods with neither GET nor PUT
C5_Witness ==
    /\ FilterDone /\ DeniedEverywhere
    /\ args.dag_ids = DagIds
    /\ args.methods = Some({"POST"})
    /\ ret.value = {}

\* what a call with methods = {GET, PUT} returns for this input, identity and policy
ResultForGetPut ==
    IF Blanket("GET") \/ Blanket("PUT") THEN args.dag_ids
    ELSE {d \in args.dag_ids : PerId("GET", d) \/ PerId("PUT", d)}

\* C6: with methods None or empty, filter_permitted_dag_ids returns what it returns
\* for methods = {GET, PUT}.
C6_MethodsDefault ==
    FilterDone =>
        ((Falsy(args.methods) \/ args.methods = Some({"GET", "PUT"}))
            => (ret.status = "returned" /\ ret.value = ResultForGetPut))

\* C6 witness: methods unset, and an id that only its PUT permission lets through
C6_Witness ==
    /\ FilterDone
    /\ args.methods = Nothing
    /\ args.dag_ids = DagIds
    /\ ~PerId("GET", "b") /\ PerId("PUT", "b")
    /\ ret.value = {"b"}

\* C6, the empty container reached as well
C6_WitnessEmpty ==
    /\ FilterDone
    /\ args.methods = Some({})
    /\ ~Blanket("GET") /\ Blanket("PUT")
    /\ ret.value = DagIds /\ args.dag_ids = DagIds

\* a get_permitted_dag_ids call has completed
GetDone == op = "get_permitted_dag_ids" /\ ret.status # "pending"

\* C7: get_permitted_dag_ids enumerates the store first, then returns exactly what
\* filter_permitted_dag_ids returns for the whole store, the same methods and the
\* same user, having made exactly the filter's backend calls after the enumeration.
C7_GetDelegatesToFilter ==
    (GetDone /\ ret.status = "returned") =>
        /\ trace # <<>> /\ trace[1] = SelectDagIds
        /\ \A i \in 2..Len(trace) : trace[i][1] = "is_authorized" /\ trace[i][6] = args.user
        /\ ret.value = IF FastPathApplies THEN dagStore
                       ELSE {d \in dagStore : \E m \in {"GET", "PUT"} \cap AskedMethods : PerId(m, d)}
        /\ \E order \in Orders(dagStore) :
              LET f == FilterPermittedDagIds(dagStore, args.methods, args.user, order)
              IN  ret.value = f.value /\ trace = <<SelectDagIds>> \o f.calls

\* C7 witness: a store of three dags filtered down to one for a user given by the
\* caller, GET asked about
C7_Witness ==
    /\ GetDone /\ ret.status = "returned"
    /\ dagStore = DagIds
    /\ args.methods = Some({"GET"}) /\ args.user = "bob" /\ session = "alice"
    /\ ret.value = {"c"}
    /\ Len(trace) = 5

\* C8: when the enumeration of the store fails, get_permitted_dag_ids raises the
\* store's error, returns no set, and makes no is_authorized_dag call.
C8_StoreFailurePropagates ==
    (GetDone /\ ~storeOk) =>
        /\ ret.status = "raised" /\ ret.value = "StoreError"
        /\ \A i \in DOMAIN trace : trace[i][1] # "is_authorized"

\* C8 witness: the store holds dags, the identity is allowed everything, the
\* enumeration fails
C8_Witness ==
    /\ GetDone /\ ~storeOk
    /\ dagStore = DagIds
    /\ policy.default = TRUE /\ policy.exceptions = {}
    /\ ret.status = "raised"

\* what filter_permitted_dag_ids returns for this input set and user when asked
\* about the methods ms
FilterValue(ms) == FilterPermittedDagIds(args.dag_ids, Some(ms), args.user, <<>>).value

\* the result decomposes over GET and PUT and stays inside the input set
DecomposesAndRestricts ==
    /\ FilterValue({"GET", "PUT"}) = FilterValue({"GET"}) \cup FilterValue({"PUT"})
    /\ (AskedMethods = {"GET", "PUT"}
            => ret.value = FilterValue({"GET"}) \cup FilterValue({"PUT"}))
    /\ ret.value \subseteq args.dag_ids

\* every id of the input authorized on its own for one of these methods is returned
IncludesAuthorizedFor(ms) ==
    \A d \in args.dag_ids : (\E m \in ms : PerId(m, d)) => d \in ret.value

\* C15 (amended): filter(S, {GET, PUT}) = filter(S, {GET}) \cup filter(S, {PUT}),
\* the result is a subset of S, and every id of S that is individually authorized
\* for GET or PUT, that method being in methods, is in the result, on the fast and
\* on the slow path. Methods other than GET and PUT contribute nothing.
C15_FilterDecomposes ==
    FilterDone =>
        /\ ret.status = "returned"
        /\ DecomposesAndRestricts
        /\ IncludesAuthorizedFor(AskedMethods \cap {"GET", "PUT"})

\* C15 (as claimed): the same, with every id that is individually authorized for
\* any method in methods in the result
C15_IncludesEveryAskedMethod ==
    FilterDone =>
        /\ DecomposesAndRestricts
        /\ IncludesAuthorizedFor(AskedMethods)

\* C15 witness: slow path for {GET, PUT}; "a" passes for GET only and "b" for PUT
\* only, so each single-method result contributes one id of the union
C15_Witness ==
    /\ FilterDone
    /\ args.dag_ids = DagIds
    /\ args.methods = Some({"GET", "PUT"})
    /\ ~FastPathApplies
    /\ PerId("GET", "a") /\ ~PerId("PUT", "a")
    /\ PerId("PUT", "b") /\ ~PerId("GET", "b")
    /\ FilterValue({"GET"}) = {"a"}
    /\ FilterValue({"PUT"}) = {"b"}
    /\ ret.value = {"a", "b"}

\* C15 witness: POST asked about together with GET; an id that passes for POST
\* only stays out
C15_WitnessOtherMethod ==
    /\ FilterDone
    /\ args.dag_ids = DagIds
    /\ args.methods = Some({"GET", "POST"})
    /\ PerId("POST", "a") /\ ~PerId("GET", "a")
    /\ "a" \notin ret.value

-----------------------------------------------------------------------------
(* The session user's accessors *)

\* a Python value: its type and its printed form
PyStr(x) == [type |-> "str", repr |-> x]
PyInt(x) == [type |-> "int", repr |-> x]
PyNone == [type |-> "NoneType", repr |-> "None"]

\* bool(v): empty strings, zero and None are falsy
Truthy(v) == ~(v = PyStr("") \/ v = PyInt("0") \/ v = PyNone)

\* str(v)
Str(v) == PyStr(v.repr)

\* the user objects a backend may bind to the session: Users and two more whose
\* get_id() is falsy
AllUsers == Users \cup {"carol", "dave"}

\* user.get_id()
GetId(u) ==
    CASE u = "alice" -> PyStr("a1")
      [] u = "bob" -> PyInt("7")
      [] u = "carol" -> PyInt("0")
      [] u = "dave" -> PyStr("")

\* user.get_name()
GetName(u) ==
    CASE u = "alice" -> PyStr("Alice")
      [] u = "bob" -> PyStr("Bob")
      [] u = "carol" -> PyStr("Carol")
      [] u = "dave" -> PyStr("Dave")

\* the event of calling self.get_user(), with what it returned
GetUser == <<"get_user", session>>

\* the event of self.log.error(message)
LogError(message) == <<"log", "error", message>>

\* AirflowException("The user must be signed in.")
MustBeSignedIn == [type |-> "AirflowException", repr |-> "The user must be signed in."]

\* get_user_name
GetUserName ==
    IF session = None
    THEN Raise(MustBeSignedIn, 86,
               <<GetUser, LogError("Calling 'get_user_name()' but the user is not signed in.")>>)
    ELSE Return(GetName(session), 87, <<GetUser>>)

\* variant of get_user_display_name: self.get_user().get_name() without the check
GetUserDisplayName_Unchecked ==
    IF session = None
    THEN Raise([type |-> "AttributeError",
                repr |-> "'NoneType' object has no attribute 'get_name'"], 91, <<GetUser>>)
    ELSE Return(GetName(session), 91, <<GetUser>>)

\* get_user_display_name
GetUserDisplayName ==
    LET r == GetUserName
    IN  IF r.status = "raised" THEN r ELSE [r EXCEPT !.line = 91]

\* variant of get_user_id: "is not None" where the code tests the id's truth value
GetUserId_NotNone ==
    IF session = None
    THEN Raise(MustBeSignedIn, 119,
               <<GetUser, LogError("Calling 'get_user_id()' but the user is not signed in.")>>)
    ELSE Return(Str(GetId(session)), 121, <<GetUser>>)

\* get_user_id
GetUserId ==
    IF session = None
    THEN Raise(MustBeSignedIn, 119,
               <<GetUser, LogError("Calling 'get_user_id()' but the user is not signed in.")>>)
    ELSE IF Truthy(GetId(session)) THEN Return(Str(GetId(session)), 121, <<GetUser>>)
    ELSE Return(PyNone, 122, <<GetUser>>)

UserOps == {"get_user_name", "get_user_display_name", "get_user_id"}

InitUser ==
    /\ session = None
    /\ op = "idle"
    /\ args = <<>>
    /\ ret = Pending
    /\ trace = <<>>
    /\ log = <<>>
    /\ threads = NoThreads
    /\ sharedIds = {}
    /\ policy = NoPolicy
    /\ dagStore = {}
    /\ storeOk = TRUE
    /\ conf = NoConf
    /\ now = 0
    /\ token = NoToken

\* the backend binds a user to the context, or unbinds it
Login(u) ==
    /\ session # u
    /\ session' = u
    /\ UNCHANGED <<threads, sharedIds, policy, dagStore, storeOk, conf, now, token, op, args, ret, trace, log>>

Logout ==
    /\ session # None
    /\ session' = None
    /\ UNCHANGED <<threads, sharedIds, policy, dagStore, storeOk, conf, now, token, op, args, ret, trace, log>>

\* a caller invokes an accessor
Invoke(r) ==
    /\ session = None => Len(log) < MaxLog
    /\ args' = <<>>
    /\ Completes(r)
    /\ UNCHANGED <<threads, sharedIds, policy, session, dagStore, storeOk, conf, now, token>>

CallGetUserName ==
    /\ op' = "get_user_name"
    /\ Invoke(GetUserName)

CallGetUserDisplayName ==
    /\ op' = "get_user_display_name"
    /\ Invoke(GetUserDisplayName)

CallGetUserId ==
    /\ op' = "get_user_id"
    /\ Invoke(GetUserId)

NextUser ==
    \/ \E u \in AllUsers : Login(u)
    \/ Logout
    \/ CallGetUserName
    \/ CallGetUserDisplayName
    \/ CallGetUserId

SpecUser == InitUser /\ [][NextUser]_vars

\* an accessor call has completed; get_user() returned BoundUser to it
UserOpDone == op \in UserOps /\ ret.status # "pending"
BoundUser == trace[1][2]

\* the error-level records the call logged
ErrorRecords == {i \in DOMAIN trace : trace[i][1] = "log" /\ trace[i][2] = "error"}

\* C9: with no user bound, get_user_name, get_user_display_name and get_user_id each
\* raise AirflowException("The user must be signed in.") and nothing else, having
\* logged one error record that is the last the log received; with a user bound,
\* each returns and logs nothing.
C9_Unauthenticated ==
    UserOpDone =>
        /\ BoundUser = None =>
            /\ ret.status = "raised" /\ ret.value = MustBeSignedIn
            /\ Cardinality(ErrorRecords) = 1
            /\ log # <<>> /\ \E i \in ErrorRecords : log[Len(log)] = trace[i]
        /\ BoundUser # None =>
            /\ ret.status = "returned"
            /\ \A i \in DOMAIN trace : trace[i][1] # "log"

\* C9 witness: get_user_display_name fails after a user who had been signed in
\* signed out
C9_Witness ==
    /\ op = "get_user_display_name"
    /\ ret.status = "raised" /\ ret.value = MustBeSignedIn
    /\ Len(log) = 2

\* C9, the bound case reached: get_user_id of a signed-in user returns after an
\* earlier failure was logged
C9_WitnessBound ==
    /\ op = "get_user_id" /\ session = "bob"
    /\ ret.status = "returned" /\ ret.value = PyStr("7")
    /\ Len(log) = 1

\* a get_user_id call has completed
GetUserIdDone == op = "get_user_id" /\ ret.status # "pending"

\* the ids Python treats as false
FalsyIds == {PyStr(""), PyInt("0")}

\* C16: with a user bound, get_user_id returns without logging: the id's string
\* form when the id is truthy, None when the id is falsy (the empty string, the
\* number 0).
C16_GetUserId ==
    (GetUserIdDone /\ BoundUser # None) =>
        /\ ret.status = "returned"
        /\ \A i \in DOMAIN trace : trace[i][1] # "log"
        /\ IF GetId(BoundUser) \in FalsyIds
           THEN ret.value = PyNone
           ELSE ret.value = PyStr(GetId(BoundUser).repr)

\* C16 witness: the signed-in user's id is the number 0 and get_user_id reports None
C16_Witness ==
    /\ GetUserIdDone
    /\ BoundUser = "carol" /\ GetId("carol") = PyInt("0")
    /\ ret.status = "returned" /\ ret.value = PyNone /\ ret.line = 122

\* C16, the empty-string id and a truthy number reached as well
C16_WitnessEmptyString ==
    /\ GetUserIdDone
    /\ BoundUser = "dave" /\ GetId("dave") = PyStr("")
    /\ ret.status = "returned" /\ ret.value = PyNone

C16_WitnessTruthy ==
    /\ GetUserIdDone
    /\ BoundUser = "bob" /\ GetId("bob") = PyInt("7")
    /\ ret.value = PyStr("7") /\ ret.line = 121

-----------------------------------------------------------------------------
(* Tokens *)

\* serialize_user(user): the identity as a mapping of primitive values
SerializeUser(u) == [id |-> GetId(u), name |-> GetName(u)]

\* deserialize_user(token): the identity the mapping describes
DeserializeUser(m) == [id |-> m.id, name |-> m.name]

\* a primitive value written as JSON, and read back
JsonEncode(v) ==
    IF v.type = "int" THEN [json |-> "number", text |-> v.repr]
    ELSE IF v.type = "str" THEN [json |-> "string", text |-> v.repr]
    ELSE [json |-> "null", text |-> "null"]

JsonDecode(j) ==
    IF j.json = "number" THEN PyInt(j.text)
    ELSE IF j.json = "string" THEN PyStr(j.text)
    ELSE PyNone

\* JWTSigner(secret_key, expiration_time_in_seconds, audience)
JWTSigner(secret, expiration, audience) ==
    [secret |-> secret, expiration |-> expiration, audience |-> audience]

\* the keyed signature of a claims segment: equal for equal key and claims only
Sign(secret, claims) == <<secret, claims>>

\* signer.generate_signed_token(extra_payload) at time t
GenerateSignedToken(signer, payload, t) ==
    LET claims == [aud |-> signer.audience, iat |-> t, exp |-> t + signer.expiration,
                   id |-> JsonEncode(payload.id), name |-> JsonEncode(payload.name)]
    IN  [claims |-> claims, sig |-> Sign(signer.secret, claims)]

\* signer.verify_token(token) at time t: signature, audience and expiry must match
TokenValid(signer, tok, t) ==
    /\ tok.sig = Sign(signer.secret, tok.claims)
    /\ tok.claims.aud = signer.audience
    /\ t < tok.claims.exp

InvalidToken == [type |-> "InvalidTokenError", repr |-> "invalid token"]

\* variant of get_jwt_token: another audience than "front-apis"
GetJwtToken_OtherAudience(user) ==
    Return(GenerateSignedToken(JWTSigner(conf.secret, conf.expiration, "apis"),
                               SerializeUser(user), now),
           112, <<>>)

\* variant of get_jwt_token: the configured expiration taken as minutes
GetJwtToken_Minutes(user) ==
    Return(GenerateSignedToken(JWTSigner(conf.secret, conf.expiration * 60, "front-apis"),
                               SerializeUser(user), now),
           112, <<>>)

\* get_jwt_token(user)
GetJwtToken(user) ==
    Return(GenerateSignedToken(JWTSigner(conf.secret, conf.expiration, "front-apis"),
                               SerializeUser(user), now),
           112, <<>>)

\* the serving API's side: verify the token, then deserialize_user its claims
VerifyAndDeserialize(tok) ==
    IF TokenValid(JWTSigner(conf.secret, conf.expiration, "front-apis"), tok, now)
    THEN Return(DeserializeUser([id |-> JsonDecode(tok.claims.id),
                                 name |-> JsonDecode(tok.claims.name)]), 0, <<>>)
    ELSE Raise(InvalidToken, 0, <<>>)

InitToken ==
    /\ conf \in [secret : {"k1", "k2"}, expiration : 1..MaxExpiration]
    /\ now = 0
    /\ token = NoToken
    /\ session = None
    /\ op = "idle"
    /\ args = <<>>
    /\ ret = Pending
    /\ trace = <<>>
    /\ log = <<>>
    /\ threads = NoThreads
    /\ sharedIds = {}
    /\ policy = NoPolicy
    /\ dagStore = {}
    /\ storeOk = TRUE

\* a caller asks for a token for user u; token remembers it and whom it is for
CallGetJwtToken(u) ==
    LET r == GetJwtToken(u)
    IN  /\ op' = "get_jwt_token"
        /\ args' = [user |-> u]
        /\ Completes(r)
        /\ token' = <<[jwt |-> r.value, user |-> u]>>
        /\ UNCHANGED <<threads, sharedIds, policy, session, dagStore, storeOk, conf, now>>

\* time passes
Tick ==
    /\ now < MaxTime
    /\ now' = now + 1
    /\ UNCHANGED <<threads, sharedIds, policy, session, dagStore, storeOk, conf, token, op, args, ret, trace, log>>

\* the token comes back in a request and is verified at the current time
CallVerifyToken ==
    /\ token # NoToken
    /\ op' = "verify_token"
    /\ args' = [token |-> token[1].jwt, user |-> token[1].user, at |-> now]
    /\ Completes(VerifyAndDeserialize(token[1].jwt))
    /\ UNCHANGED <<threads, sharedIds, policy, session, dagStore, storeOk, conf, now, token>>

NextToken ==
    \/ \E u \in AllUsers : CallGetJwtToken(u)
    \/ Tick
    \/ CallVerifyToken

SpecToken == InitToken /\ [][NextToken]_vars

ValidAt(tok, c, t) == TokenValid(JWTSigner(c.secret, c.expiration, "front-apis"), tok, t)

\* the token passes verification now
ValidNow(tok) == ValidAt(tok, conf, now)

\* the end of the token's expiration window, by the configuration
WindowEnd(tok) == tok.claims.iat + conf.expiration

\* the token in hand is valid exactly inside its window, and a verification made at
\* or after the window's end fails with InvalidToken
ValidUntilExpiry ==
    /\ token # NoToken =>
            (ValidNow(token[1].jwt) <=> now < WindowEnd(token[1].jwt))
    /\ (op = "verify_token" /\ ret.status # "pending") =>
            ((ret.status = "raised" /\ ret.value = InvalidToken)
                <=> args.at >= WindowEnd(args.token))

\* a step leaves a token that fails verification failing, whatever the step is
\* (issuing another token included)
NeverRenewed ==
    (token # NoToken /\ ~ValidNow(token[1].jwt)) => ~ValidAt(token[1].jwt, conf', now')

\* C11: a token is valid from its issue until its expiration window has elapsed and
\* fails verification at every later time, its signature and audience being
\* correct; no step makes a token that fails verification pass again.
C11_TokenLifecycle == []ValidUntilExpiry /\ [][NeverRenewed]_vars

\* C11 witness: a correctly signed token for the right audience, verified after its
\* window, is refused, and another token has not been issued since
C11_Witness ==
    /\ op = "verify_token" /\ ret.status = "raised"
    /\ args.token = token[1].jwt
    /\ args.token.sig = Sign(conf.secret, args.token.claims)
    /\ args.token.claims.aud = "front-apis"
    /\ args.at > WindowEnd(args.token)
    /\ now = MaxTime

-----------------------------------------------------------------------------
(* The manager as a whole: any of the operations above, from any of their *)
(* environments. SpecBatch, SpecFilter, SpecUser and SpecToken each        *)
(* restrict it to one family of operations.                                *)

-----------------------------------------------------------------------------
(* Concurrent calls on one manager *)

\* the request-handling threads
Threads == {"t1", "t2"}

\* the content of the set object the callers share, and of the store
ConcIds == {"a", "b"}

\* the request sequences and methods arguments the concurrent callers pass
ConcRequest(m) == [method |-> m, details |-> None, access_entity |-> None, user |-> None]

ConcBatches ==
    {<<ConcRequest("GET")>>, <<ConcRequest("GET"), ConcRequest("PUT")>>,
     <<ConcRequest("PUT"), ConcRequest("GET")>>}

ConcMethods == {Nothing, Some({"GET"})}

\* a call a thread makes: the operation and its arguments; filter_permitted_dag_ids
\* is passed the shared set object as dag_ids
Jobs ==
    {[op |-> BatchOp(k), args |-> [requests |-> rs, methods |-> Nothing, user |-> None]] :
        k \in Kinds, rs \in ConcBatches}
    \cup {[op |-> o, args |-> [requests |-> <<>>, methods |-> ms, user |-> u]] :
            o \in {"filter_permitted_dag_ids", "get_permitted_dag_ids"},
            ms \in ConcMethods, u \in Overrides}

\* a thread about to make its call; its locals: the position in the request
\* sequence (i), methods after defaulting (ms), whether dag_ids is a set of its own
\* (own, local) or the shared object, the ids still to visit (todo), the result
\* set under construction (kept).  met records that it took a step while another
\* call was in progress.
StartOf(job) ==
    [op |-> job.op, args |-> job.args, pc |-> "call", i |-> 1, ms |-> {}, own |-> FALSE,
     local |-> {}, todo |-> <<>>, kept |-> {}, met |-> FALSE,
     ret |-> [status |-> "pending", alias |-> FALSE, value |-> None]]

\* what the backend can be asked by the concurrent callers
\* (the batch calls ask for the session's user only)
ConcQueries ==
    {Query("alice", k, m, None, None) : k \in Kinds, m \in {"GET", "PUT"}}
    \cup {Query(s, "dag", m, None, d) : s \in Users, m \in {"GET", "PUT"},
                                        d \in {None} \cup ConcIds}

InitConc ==
    /\ threads \in [Threads -> {StartOf(j) : j \in Jobs}]
    /\ sharedIds = ConcIds
    /\ policy \in Policies(AtMostOne(ConcQueries))
    /\ session = "alice"
    /\ dagStore = ConcIds
    /\ storeOk \in BOOLEAN
    /\ conf = NoConf
    /\ now = 0
    /\ token = NoToken
    /\ op = "idle"
    /\ args = <<>>
    /\ ret = Pending
    /\ trace = <<>>
    /\ log = <<>>

\* the call of this thread is in progress
InFlight(th) == th.pc \notin {"call", "done"}

\* the set object dag_ids names in this thread
IdsOf(th) == IF th.own THEN th.local ELSE sharedIds

\* thread t moves on with locals th
Becomes(t, th) ==
    /\ threads' = [threads EXCEPT
                     ![t] = [th EXCEPT !.met = @ \/ \E u \in Threads \ {t} : InFlight(threads[u])]]
    /\ UNCHANGED <<policy, session, dagStore, storeOk, conf, now, token, op, args, ret, trace, log>>

\* the thread's call returns a value, returns the dag_ids object itself, or raises
Returns(th, v) ==
    [th EXCEPT !.pc = "done", !.ret = [status |-> "returned", alias |-> FALSE, value |-> v]]
ReturnsDagIds(th) ==
    [th EXCEPT !.pc = "done", !.ret = [status |-> "returned", alias |-> TRUE, value |-> {}]]
Raises(th, e) ==
    [th EXCEPT !.pc = "done", !.ret = [status |-> "raised", alias |-> FALSE, value |-> e]]

\* the call is entered, its arguments bound
StepCall(t) ==
    LET th == threads[t]
    IN  /\ th.pc = "call"
        /\ Becomes(t, [th EXCEPT !.pc = IF th.op \in BatchOps THEN "loop"
                                        ELSE IF th.op = "get_permitted_dag_ids" THEN "select"
                                        ELSE "methods"])
        /\ UNCHANGED sharedIds

\* batch_is_authorized_<kind>: all() pulls the next request from the generator and
\* asks the backend about it
StepBatch(t) ==
    LET th == threads[t]
        rs == th.args.requests
    IN  /\ th.pc = "loop"
        /\ IF th.i > Len(rs) THEN Becomes(t, Returns(th, TRUE))
           ELSE IF IsAuthorized(KindOf(th.op), rs[th.i].method, rs[th.i].access_entity,
                                rs[th.i].details, None)
                THEN Becomes(t, [th EXCEPT !.i = @ + 1])
                ELSE Becomes(t, Returns(th, FALSE))
        /\ UNCHANGED sharedIds

\* get_permitted_dag_ids: the dag ids are read from the store into a new set
StepSelect(t) ==
    LET th == threads[t]
    IN  /\ th.pc = "select"
        /\ IF storeOk
           THEN Becomes(t, [th EXCEPT !.pc = "methods", !.own = TRUE, !.local = dagStore])
           ELSE Becomes(t, Raises(th, "StoreError"))
        /\ UNCHANGED sharedIds

\* filter_permitted_dag_ids: "if not methods: methods = [PUT, GET]"
StepDefaultMethods(t) ==
    LET th == threads[t]
    IN  /\ th.pc = "methods"
        /\ Becomes(t, [th EXCEPT !.pc = "fast_get",
                                 !.ms = IF Falsy(th.args.methods) THEN {"PUT", "GET"}
                                        ELSE th.args.methods[1]])
        /\ UNCHANGED sharedIds

\* the first operand of the early return's condition
StepFastGet(t) ==
    LET th == threads[t]
    IN  /\ th.pc = "fast_get"
        /\ IF "GET" \in th.ms /\ IsAuthorized("dag", "GET", None, None, th.args.user)
           THEN Becomes(t, ReturnsDagIds(th))
           ELSE Becomes(t, [th EXCEPT !.pc = "fast_put"])
        /\ UNCHANGED sharedIds

\* the second operand of the early return's condition
StepFastPut(t) ==
    LET th == threads[t]
    IN  /\ th.pc = "fast_put"
        /\ IF "PUT" \in th.ms /\ IsAuthorized("dag", "PUT", None, None, th.args.user)
           THEN Becomes(t, ReturnsDagIds(th))
           ELSE Becomes(t, [th EXCEPT !.pc = "iterate"])
        /\ UNCHANGED sharedIds

\* the set comprehension starts iterating dag_ids, in some order
StepIterate(t) ==
    LET th == threads[t]
    IN  /\ th.pc = "iterate"
        /\ \E order \in Orders(IdsOf(th)) :
            Becomes(t, [th EXCEPT !.pc = "visit", !.todo = order])
        /\ UNCHANGED sharedIds

\* variant of the comprehension: ids that fail are discarded from dag_ids in place
AfterVisit_Discard(ids, dag_id, keep) == IF keep THEN ids ELSE ids \ {dag_id}

\* dag_ids after the comprehension has visited dag_id: as before, the ids that
\* pass go into a new set
AfterVisit(ids, dag_id, keep) == ids

\* the comprehension visits the next id, or is exhausted and its set is returned
StepVisit(t) ==
    LET th == threads[t]
    IN  /\ th.pc = "visit"
        /\ IF th.todo = <<>>
           THEN Becomes(t, Returns(th, th.kept)) /\ UNCHANGED sharedIds
           ELSE LET d == Head(th.todo)
                    keep == KeepDagId(th.ms, d, th.args.user).value
                    next == [th EXCEPT !.todo = Tail(@),
                                       !.kept = IF keep THEN @ \cup {d} ELSE @]
                IN  IF th.own
                    THEN /\ Becomes(t, [next EXCEPT !.local = AfterVisit(@, d, keep)])
                         /\ UNCHANGED sharedIds
                    ELSE /\ Becomes(t, next)
                         /\ sharedIds' = AfterVisit(sharedIds, d, keep)

NextConc ==
    \E t \in Threads :
        \/ StepCall(t)
        \/ StepBatch(t)
        \/ StepSelect(t)
        \/ StepDefaultMethods(t)
        \/ StepFastGet(t)
        \/ StepFastPut(t)
        \/ StepIterate(t)
        \/ StepVisit(t)

SpecConc == InitConc /\ [][NextConc]_vars

\* what the thread's call came to: for a returned dag_ids object, its content
Outcome(th) ==
    [status |-> th.ret.status, value |-> IF th.ret.alias THEN IdsOf(th) ELSE th.ret.value]

\* what the same call comes to when it runs alone, start to end
BatchAlone(kind, requests) ==
    CASE kind = "connection" -> BatchIsAuthorizedConnection(requests)
      [] kind = "dag" -> BatchIsAuthorizedDag(requests)
      [] kind = "pool" -> BatchIsAuthorizedPool(requests)
      [] kind = "variable" -> BatchIsAuthorizedVariable(requests)

Alone(th) ==
    LET r == IF th.op \in BatchOps THEN BatchAlone(KindOf(th.op), th.args.requests)
             ELSE IF th.op = "filter_permitted_dag_ids"
                  THEN FilterPermittedDagIds(ConcIds, th.args.methods, th.args.user, <<>>)
                  ELSE GetPermittedDagIds(th.args.methods, th.args.user, <<>>)
    IN  [status |-> r.status, value |-> r.value]

\* C12: whatever the interleaving of the threads' steps, the shared dag_ids set keeps
\* its content, every thread's arguments stay as passed, and every finished call has
\* the outcome the same call has when it runs alone under the same policy and store.
C12_ConcurrentCallsIndependent ==
    /\ sharedIds = ConcIds
    /\ \A t \in Threads :
        /\ \E j \in Jobs : threads[t].op = j.op /\ threads[t].args = j.args
        /\ threads[t].pc = "done" => Outcome(threads[t]) = Alone(threads[t])

\* C12 witness: two filter calls on the shared set, for different users, each taking
\* steps while the other was in progress; one came out with a proper subset by the
\* slow path and the other with nothing
C12_Witness ==
    /\ \A t \in Threads :
        /\ threads[t].op = "filter_permitted_dag_ids"
        /\ threads[t].pc = "done" /\ threads[t].met
    /\ threads["t1"].args.user = None /\ threads["t2"].args.user = "bob"
    /\ Outcome(threads["t1"]).value = {"a"}
    /\ Outcome(threads["t2"]).value = {}

\* C12, a batch call stopped at its second request and a get_permitted_dag_ids call
\* returning the whole store, overlapping
C12_WitnessMixed ==
    /\ threads["t1"].op = BatchOp("pool") /\ threads["t2"].op = "get_permitted_dag_ids"
    /\ \A t \in Threads : threads[t].pc = "done" /\ threads[t].met
    /\ threads["t1"].i = 2 /\ threads["t1"].ret.value = FALSE
    /\ threads["t2"].ret.alias /\ Outcome(threads["t2"]).value = ConcIds

Init == InitBatch \/ InitFilter \/ InitUser \/ InitToken

Next == NextBatch \/ NextFilter \/ NextUser \/ NextToken

Spec == Init /\ [][Next]_vars

=============================================================================
